---- MODULE Spec2Model ----
(***************************************************************************)
(* The spaceship launch sequencer (SpaceshipAnimation) and the engine      *)
(* flame particle pool (FlameParticleSystem), as state machines driven by  *)
(* the browser host: user clicks, animation frames, timers and the clock.  *)
(*                                                                         *)
(* Numbers.  Times are integers in milliseconds.  Every other real number  *)
(* of the sequencer is held in fixed point, as a multiple of 1/FixedOne.   *)
(* Clock readings are multiples of FrameQuantum, so stage progress is a    *)
(* multiple of 1/ProgDen and every product below is exact in fixed point.  *)
(***************************************************************************)
EXTENDS Integers, Sequences, FiniteSets, TLC

VARIABLES
  now,              \* performance.now(), ms
  frameTime,        \* the timestamp the host hands to this frame's callbacks
  animationState,   \* SpaceshipAnimation.animationState
  rafId,            \* SpaceshipAnimation.rafId (0 is null)
  pending,          \* requestAnimationFrame callbacks registered for the next frame
  frameQueue,       \* callbacks of the frame being run, not yet called
  shipPosition,     \* spaceship.position
  shipRotation,     \* spaceship.rotation: the properties of the Euler object
  camera,           \* camera.position, and whether this specification
                    \* follows it
  controlsEnabled,  \* controls.enabled
  warpVisible,      \* warpTunnel.visible
  warpPosition,     \* warpTunnel.position
  warpUniforms,     \* warpTunnel.material.uniforms: time, active
  warpScale,        \* warpTunnel.scale (uniform)
  bloomStrength,    \* composer.passes[1].strength
  visible,          \* flameParticleSystem.particles.visible
  overlays,         \* fade overlays appended to document.body
  timers,           \* deadlines of the pending navigation timeouts
  navigated,        \* window.location.href was assigned: the page is gone
  onCompleteCalls,  \* invocations of the onComplete constructor argument
  launches,         \* accepted startAnimation() calls          (history)
  launchedAt,       \* performance.now() at the last accepted
                    \* startAnimation()                         (history)
  completions,      \* completeAnimation() calls                (history)
  stageLog,         \* the values assigned to animationState.stage (history)
  frameLog,         \* stage and progress of the last handled frame (history)
  lastCall,         \* the handler that took the last step      (history)
  calls,            \* the rig calls the last handler made, in order (history)
  maxParticles,     \* FlameParticleSystem.maxParticles
  positions,        \* FlameParticleSystem.positions   (index 0 .. 3n-1)
  velocities,       \* FlameParticleSystem.velocities  (index 0 .. 3n-1)
  colors,           \* FlameParticleSystem.colors      (index 0 .. 3n-1)
  sizes,            \* FlameParticleSystem.sizes       (index 0 .. n-1)
  lifespans,        \* FlameParticleSystem.lifespans   (index 0 .. n-1)
  cloudPosition,    \* FlameParticleSystem.particles.position
  capacity,         \* the constructor's maxParticles argument  (history)
  respawns,         \* resetParticle() calls made              (history)
  updates,          \* update() calls made                     (history)
  lastArgs,         \* the arguments of the last update() call and the
                    \* tape of its Math.random() results       (history)
  atStop            \* the slots as they were when stop() was last called,
                    \* if update() has not been called since   (history)

seqVars == <<now, frameTime, animationState, rafId, pending, frameQueue,
             shipPosition, controlsEnabled, warpVisible, warpPosition,
             warpUniforms, warpScale, bloomStrength, visible, overlays, timers,
             navigated, onCompleteCalls, launches, completions, stageLog,
             frameLog, lastCall, calls, launchedAt, shipRotation, camera>>

poolVars == <<maxParticles, positions, velocities, colors, sizes, lifespans,
              cloudPosition, capacity, respawns, updates, lastArgs, atStop>>

vars == <<seqVars, poolVars>>

(***************************************************************************)
(* Program constants                                                       *)
(***************************************************************************)
LAUNCH_DURATION == 4000
FLAME_BUILDUP_DURATION == 1500
LAUNCH_HEIGHT == 500
LAUNCH_DEPTH == 100
RANDOM_OFFSET_SPAN == 10
FADE_TIMEOUT == 1000
FRAME_RATE == 60
\* updateCameraAnimation: the offsets 50 * eased and 100 - eased * 75, and
\* the lerp factor 0.1 as the number of steps it divides the way into.
CAMERA_RISE == 50
CAMERA_DISTANCE == 100
CAMERA_APPROACH == 75
CAMERA_LERP_STEPS == 10

(***************************************************************************)
(* Bounds                                                                  *)
(***************************************************************************)
MaxTime == 7500
MaxCapacity == 2
MaxUpdates == 3

(***************************************************************************)
(* Arithmetic                                                              *)
(***************************************************************************)
RECURSIVE GCD(_, _)
GCD(a, b) == IF b = 0 THEN a ELSE GCD(b, a % b)

Min(a, b) == IF a <= b THEN a ELSE b

\* The grain of the clock: both stage boundaries fall on a clock reading.
FrameQuantum == GCD(LAUNCH_DURATION, FLAME_BUILDUP_DURATION)
ProgDen == LAUNCH_DURATION \div FrameQuantum
BuildDen == FLAME_BUILDUP_DURATION \div FrameQuantum
\* Cubes of launch progress and buildup progress are both whole multiples.
FixedOne == ProgDen * ProgDen * ProgDen * BuildDen

\* Time that may pass between two host events; the last one is longer than
\* both stages together.
Delays == {FrameQuantum, 2 * FrameQuantum,
           FLAME_BUILDUP_DURATION + LAUNCH_DURATION + FrameQuantum}
\* How far a frame's timestamp may lie behind the clock when its callbacks run.
FrameLags == {0, FrameQuantum}

\* Math.random() results in [0, 1), as multiples of 1/RandDen: with this grain
\* the lateral launch offsets are whole units.
RandDen == RANDOM_OFFSET_SPAN
RandomDraws == {0, 8}

Vec(x, y, z) == [x |-> x, y |-> y, z |-> z]

\* The warp shader's time uniform is in seconds, held as a multiple of
\* 1/WarpTimeOne: a millisecond and a sixtieth of a second are both whole.
WarpTimeOne == 50 * FRAME_RATE
Millis(ms) == ms * (WarpTimeOne \div 1000)

\* A product of two fixed-point numbers.
Times(a, b) == (a * b) \div FixedOne

\* THREE.Vector3.lerpVectors(v1, v2, alpha): v1 + (v2 - v1) * alpha, per axis.
LerpAxis(a, b, alpha) == a + Times(b - a, alpha)

lerpVectors(v1, v2, alpha) ==
  Vec(LerpAxis(v1.x, v2.x, alpha), LerpAxis(v1.y, v2.y, alpha),
      LerpAxis(v1.z, v2.z, alpha))

\* Math.min(elapsed / duration, 1), in fixed point.
Progress(elapsed, duration) ==
  (Min(elapsed, duration) \div FrameQuantum) * (FixedOne \div (duration \div FrameQuantum))

\* Angles are in milliradians; HalfTurn is Math.PI.
HalfTurn == 3142

\* Math.sin, in fixed point, by Bhaskara's formula
\*   sin x = 16 x (pi - x) / (5 pi^2 - 4 x (pi - x))   for 0 <= x <= pi,
\* which is within 0.002 of the sine and exact at 0, pi/6, pi/2 and pi.
SinHalfTurn(x) ==
  LET y == x * (HalfTurn - x)
  IN (((16 * y) \div 1024) * FixedOne) \div ((5 * HalfTurn * HalfTurn - 4 * y) \div 1024)

Sin(a) ==
  LET x == a % (2 * HalfTurn)
  IN IF x <= HalfTurn THEN SinHalfTurn(x) ELSE 0 - SinHalfTurn(x - HalfTurn)

\* customEase(t): t < 0.5 ? 4 t^3 : 1 - (-2 t + 2)^3 / 2
customEase_MissingComplement(t) ==
  IF 2 * t < FixedOne
  THEN Times(Times(4 * t, t), t)
  ELSE Times(Times(2 * FixedOne - 2 * t, 2 * FixedOne - 2 * t),
             2 * FixedOne - 2 * t) \div 2
customEase(t) ==
  IF 2 * t < FixedOne
  THEN Times(Times(4 * t, t), t)
  ELSE FixedOne - Times(Times(2 * FixedOne - 2 * t, 2 * FixedOne - 2 * t),
                        2 * FixedOne - 2 * t) \div 2

(***************************************************************************)
(* The host's animation-frame queue                                        *)
(***************************************************************************)
Handles(q) == {q[i].id : i \in 1..Len(q)}

\* The handle requestAnimationFrame returns.  Handles are only compared for
\* equality, so a retired handle that nothing refers to any more is reused.
NewHandle(w) ==
  CHOOSE n \in 1..(Len(w.pending) + Len(w.frameQueue) + 2) :
    /\ n \notin Handles(w.pending) \cup Handles(w.frameQueue) \cup {w.rafId}
    /\ \A m \in 1..(n - 1) :
         m \in Handles(w.pending) \cup Handles(w.frameQueue) \cup {w.rafId}

requestAnimationFrame(w, fn) ==
  [w EXCEPT !.pending = Append(@, [id |-> NewHandle(w), fn |-> fn])]

Without(q, id) == SelectSeq(q, LAMBDA e : e.id # id)

\* cancelAnimationFrame(id): the callback, if not yet called, never is.
cancelAnimationFrame(w, id) ==
  [w EXCEPT !.pending = Without(@, id), !.frameQueue = Without(@, id)]

(***************************************************************************)
(* SpaceshipAnimation.  Each method maps the world before the call to the  *)
(* world after it; w.now is performance.now().  The world holds what the   *)
(* sequencer's control flow reads or the rig writes.  The camera's         *)
(* position is written by updateCameraAnimation and read back by nothing   *)
(* but the next updateCameraAnimation: it is followed under SpecCamera,    *)
(* where frames come one per clock reading, and left where createCamera    *)
(* put it under the other specifications.  w.calls records, in order, that *)
(* the handler wrote the ship's transform ("transform"), called the        *)
(* particles' update ("update") and called composer.render() ("render").   *)
(* SpaceScene.animate, the scene's own frame loop, is a step of SpecScene  *)
(* and not of Spec.                                                        *)
(***************************************************************************)
World ==
  [now |-> now, animationState |-> animationState, rafId |-> rafId,
   pending |-> pending, frameQueue |-> frameQueue,
   shipPosition |-> shipPosition, controlsEnabled |-> controlsEnabled,
   warpVisible |-> warpVisible, warpPosition |-> warpPosition,
   warpUniforms |-> warpUniforms, warpScale |-> warpScale,
   bloomStrength |-> bloomStrength, visible |-> visible,
   overlays |-> overlays, timers |-> timers,
   onCompleteCalls |-> onCompleteCalls, launches |-> launches,
   completions |-> completions, stageLog |-> stageLog, frameLog |-> frameLog,
   calls |-> calls, launchedAt |-> launchedAt, shipRotation |-> shipRotation,
   camera |-> camera]

Becomes(w) ==
  /\ animationState' = w.animationState
  /\ rafId' = w.rafId
  /\ pending' = w.pending
  /\ frameQueue' = w.frameQueue
  /\ shipPosition' = w.shipPosition
  /\ controlsEnabled' = w.controlsEnabled
  /\ warpVisible' = w.warpVisible
  /\ warpPosition' = w.warpPosition
  /\ warpUniforms' = w.warpUniforms
  /\ warpScale' = w.warpScale
  /\ bloomStrength' = w.bloomStrength
  /\ visible' = w.visible
  /\ overlays' = w.overlays
  /\ timers' = w.timers
  /\ onCompleteCalls' = w.onCompleteCalls
  /\ launches' = w.launches
  /\ completions' = w.completions
  /\ stageLog' = w.stageLog
  /\ frameLog' = w.frameLog
  /\ calls' = w.calls
  /\ launchedAt' = w.launchedAt
  /\ shipRotation' = w.shipRotation
  /\ camera' = w.camera

\* FlameParticleSystem.start() and stop(), on any record that holds the
\* point cloud's visible flag.
start(w) == [w EXCEPT !.visible = TRUE]
stop_RestartsCountdown(w) ==
  [w EXCEPT !.visible = FALSE, !.lifespans = [k \in DOMAIN @ |-> 0]]
stop(w) == [w EXCEPT !.visible = FALSE]

\* (Math.random() - 0.5) * 10
RandomOffset_NotCentred(r) == (r * FixedOne * RANDOM_OFFSET_SPAN) \div RandDen
RandomOffset(r) ==
  (r * FixedOne * RANDOM_OFFSET_SPAN) \div RandDen - (FixedOne * RANDOM_OFFSET_SPAN) \div 2

initializeAnimation_ParticlesNotStarted(w, rx, rz) ==
  LET p == w.shipPosition
      target == Vec(p.x + RandomOffset(rx),
                    p.y + LAUNCH_HEIGHT * FixedOne,
                    p.z - LAUNCH_DEPTH * FixedOne + RandomOffset(rz))
  IN      [w EXCEPT
       !.animationState = [isAnimating |-> TRUE, stage |-> "flame-buildup",
                           startTime |-> w.now, startPosition |-> p,
                           targetPosition |-> target],
       !.stageLog = Append(@, "flame-buildup"),
       !.launches = @ + 1,
       !.launchedAt = w.now,
       !.controlsEnabled = FALSE,
       !.warpVisible = TRUE,
       !.warpPosition = p]
initializeAnimation(w, rx, rz) ==
  LET p == w.shipPosition
      target == Vec(p.x + RandomOffset(rx),
                    p.y + LAUNCH_HEIGHT * FixedOne,
                    p.z - LAUNCH_DEPTH * FixedOne + RandomOffset(rz))
  IN start([w EXCEPT
       !.animationState = [isAnimating |-> TRUE, stage |-> "flame-buildup",
                           startTime |-> w.now, startPosition |-> p,
                           targetPosition |-> target],
       !.stageLog = Append(@, "flame-buildup"),
       !.launches = @ + 1,
       !.launchedAt = w.now,
       !.controlsEnabled = FALSE,
       !.warpVisible = TRUE,
       !.warpPosition = p])

\* The sequencer's rotationParams: speed in tenths of a radian per second,
\* amplitude in hundredths of a radian.
rotationParams ==
  [roll |-> [speed |-> 25, amplitude |-> 15],
   pitch |-> [speed |-> 18, amplitude |-> 8],
   yaw |-> [speed |-> 12, amplitude |-> 12]]

\* object[key] = value: the property is created if the object has none.
SetProperty(object, key, value) ==
  [k \in DOMAIN object \cup {key} |-> IF k = key THEN value ELSE object[k]]

applyComplexRotation(w, progress) ==
  LET oscillation == Sin((progress * 2 * HalfTurn) \div FixedOne)
      damping == FixedOne - progress
      Angle(params) == Times((oscillation * params.amplitude) \div 100, damping)
  IN [w EXCEPT
       !.shipRotation =
         SetProperty(SetProperty(SetProperty(@,
           "x", Angle(rotationParams.pitch)),
           "y", Angle(rotationParams.yaw)),
           "z", Angle(rotationParams.roll)),
       !.calls = Append(@, "transform")]

\* Object.entries(rotationParams) gives the keys roll, pitch, yaw, and each
\* is used as the name of the property that is written.
applyAdvancedRotation(w, progress) ==
  LET damping == Sin((progress * HalfTurn) \div (2 * FixedOne))
      Value(params) ==
        Times((Sin((w.now * params.speed) \div 10) * params.amplitude) \div 100,
              damping)
  IN [w EXCEPT
       !.shipRotation =
         SetProperty(SetProperty(SetProperty(@,
           "roll", Value(rotationParams.roll)),
           "pitch", Value(rotationParams.pitch)),
           "yaw", Value(rotationParams.yaw))]

handleFlameBuildup_TransitionFirst(w, elapsed) ==
  LET progress == Progress(elapsed, FLAME_BUILDUP_DURATION)
      w1 == [w EXCEPT !.frameLog = [stage |-> "flame-buildup", progress |-> progress]]
  IN IF progress >= FixedOne
     THEN [w1 EXCEPT !.animationState.stage = "launching",
                     !.animationState.startTime = w.now,
                     !.stageLog = Append(@, "launching")]
     ELSE applyComplexRotation(w1, progress)
handleFlameBuildup_KeepsStartTime(w, elapsed) ==
  LET progress == Progress(elapsed, FLAME_BUILDUP_DURATION)
      w1 == applyComplexRotation(
              [w EXCEPT !.frameLog = [stage |-> "flame-buildup", progress |-> progress]],
              progress)
  IN IF progress >= FixedOne
     THEN [w1 EXCEPT !.animationState.stage = "launching",
                     !.stageLog = Append(@, "launching")]
     ELSE w1
handleFlameBuildup(w, elapsed) ==
  LET progress == Progress(elapsed, FLAME_BUILDUP_DURATION)
      w1 == applyComplexRotation(
              [w EXCEPT !.frameLog = [stage |-> "flame-buildup", progress |-> progress]],
              progress)
  IN IF progress >= FixedOne
     THEN [w1 EXCEPT !.animationState.stage = "launching",
                     !.animationState.startTime = w.now,
                     !.stageLog = Append(@, "launching")]
     ELSE w1

updateWarpTunnel_Accumulates(w, elapsed, progress) ==
  [w EXCEPT !.warpUniforms = [time |-> @.time + Millis(elapsed),
                              active |-> Min(progress * 2, FixedOne)],
            !.warpPosition = w.shipPosition,
            !.warpScale = FixedOne + progress \div 2]
updateWarpTunnel(w, elapsed, progress) ==
  [w EXCEPT !.warpUniforms = [time |-> Millis(elapsed),
                              active |-> Min(progress * 2, FixedOne)],
            !.warpPosition = w.shipPosition,
            !.warpScale = FixedOne + progress \div 2]

updateEffects(w, progress) ==
  [w EXCEPT !.bloomStrength = FixedOne + progress * 3]

fadeOutAndTransition(w) ==
  requestAnimationFrame([w EXCEPT !.overlays = @ + 1], "fade")

cleanup_ControlsLeftDisabled(w) ==
  LET w1 == IF w.rafId # 0 THEN cancelAnimationFrame(w, w.rafId) ELSE w
  IN [stop(w1) EXCEPT !.warpVisible = FALSE,
                      !.animationState.isAnimating = FALSE]
cleanup(w) ==
  LET w1 == IF w.rafId # 0 THEN cancelAnimationFrame(w, w.rafId) ELSE w
  IN [stop(w1) EXCEPT !.warpVisible = FALSE,
                      !.controlsEnabled = TRUE,
                      !.animationState.isAnimating = FALSE]

completeAnimation(w) ==
  fadeOutAndTransition(cleanup([w EXCEPT !.completions = @ + 1]))

\* SpaceScene.createCamera places the camera.
CameraInitialPosition == Vec(0, 0, 200 * FixedOne)

\* cameraOffsetZ: the camera closes in on the ship as the launch proceeds.
CameraOffsetZ(eased) == CAMERA_DISTANCE * FixedOne - CAMERA_APPROACH * eased

\* Vector3.lerp(v, 1/den): each axis moves the den-th part of the way to v.
lerp(position, v, den) ==
  Vec(position.x + (v.x - position.x) \div den,
      position.y + (v.y - position.y) \div den,
      position.z + (v.z - position.z) \div den)

\* The point above and behind the ship the camera is drawn to.
CameraTarget(ship, eased) ==
  Vec(ship.x, ship.y + CAMERA_RISE * eased, ship.z + CameraOffsetZ(eased))

\* A camera that is placed by stage progress alone, whatever the frames were.
updateCameraAnimation_PlacedByProgress(w, progress) ==
  IF ~w.camera.followed THEN w
  ELSE [w EXCEPT !.camera.position =
          lerpVectors(CameraInitialPosition,
                      CameraTarget(w.shipPosition, customEase(progress)),
                      progress)]

\* camera.lookAt turns the camera and leaves its position alone.  The
\* position is written only where the specification follows it.
updateCameraAnimation(w, progress) ==
  IF ~w.camera.followed THEN w
  ELSE [w EXCEPT !.camera.position =
          lerp(@, CameraTarget(w.shipPosition, customEase(progress)),
               CAMERA_LERP_STEPS)]

handleLaunching(w, elapsed) ==
  LET progress == Progress(elapsed, LAUNCH_DURATION)
      eased == customEase(progress)
      w1 == [w EXCEPT !.frameLog = [stage |-> "launching", progress |-> progress],
                      !.shipPosition = lerpVectors(w.animationState.startPosition,
                                                   w.animationState.targetPosition,
                                                   eased),
                      !.calls = Append(@, "transform")]
      w2 == updateEffects(
              updateCameraAnimation(
                updateWarpTunnel(applyAdvancedRotation(w1, progress), elapsed,
                                 progress),
                progress),
              progress)
  IN IF progress >= FixedOne THEN completeAnimation(w2) ELSE w2

animate(w, currentTime) ==
  IF ~w.animationState.isAnimating
  THEN w
  ELSE LET elapsed == currentTime - w.animationState.startTime
           w1 == CASE w.animationState.stage = "flame-buildup" ->
                        handleFlameBuildup(w, elapsed)
                   [] w.animationState.stage = "launching" ->
                        handleLaunching(w, elapsed)
                   [] OTHER -> w
           w2 == requestAnimationFrame([w1 EXCEPT !.calls = Append(@, "render")],
                                       "animate")
       IN [w2 EXCEPT !.rafId = w2.pending[Len(w2.pending)].id]

AlreadyAnimating_OnlyWhileLaunching(w) ==
  w.animationState.isAnimating /\ w.animationState.stage = "launching"
AlreadyAnimating(w) == w.animationState.isAnimating

startAnimation(w, rx, rz) ==
  IF AlreadyAnimating(w) THEN w ELSE animate(initializeAnimation(w, rx, rz), w.now)

\* The callback fadeOutAndTransition registers: the overlay turns opaque and
\* the navigation timeout is set.
fadeCallback(w) == [w EXCEPT !.timers = @ \cup {w.now + FADE_TIMEOUT}]


(***************************************************************************)
(* FlameParticleSystem.  The typed arrays are functions on 0 .. length-1,  *)
(* indexed as in the source.  Particle quantities are fixed point, as      *)
(* multiples of 1/ParticleOne; deltaTime is a multiple of 1/FRAME_RATE s.  *)
(***************************************************************************)
ParticleOne == 100 * FRAME_RATE

\* The results Math.random() gives to one call of a method: the draw for
\* slot i's f-th use, in multiples of 1/RandDen.
Tapes == {"zeros", "halves", "mixed"}
Rand(tape, i, f) ==
  CASE tape = "zeros" -> 0
    [] tape = "halves" -> 5
    [] OTHER -> IF (i + f) % 2 = 0 THEN 8 ELSE 0

\* Math.random() and Math.random() - 0.5, in fixed point.
Unit(r) == (r * ParticleOne) \div RandDen
Centered(r) == Unit(r) - ParticleOne \div 2

\* deltaTime * k and x * deltaTime, in fixed point.
DtTimes(dt, k) == (dt * k * ParticleOne) \div FRAME_RATE
ByDt(x, dt) == (x * dt) \div FRAME_RATE

\* new Float32Array(n)
Float32Array(n) == [k \in 0..(n - 1) |-> 0]

Pool ==
  [maxParticles |-> maxParticles, positions |-> positions,
   velocities |-> velocities, colors |-> colors, sizes |-> sizes,
   lifespans |-> lifespans, cloudPosition |-> cloudPosition,
   visible |-> visible, respawns |-> respawns]

PoolBecomes(P) ==
  /\ maxParticles' = P.maxParticles
  /\ positions' = P.positions
  /\ velocities' = P.velocities
  /\ colors' = P.colors
  /\ sizes' = P.sizes
  /\ lifespans' = P.lifespans
  /\ cloudPosition' = P.cloudPosition
  /\ respawns' = P.respawns

\* A typed-array store: an index outside the array stores nothing.
Store(a, k, v) == IF k \in DOMAIN a THEN [a EXCEPT ![k] = v] ELSE a

\* The body of initializeParticles' loop.
initializeSlot(P, i, tape) ==
  LET i3 == i * 3
      r(f) == Rand(tape, i, f)
  IN [P EXCEPT
       !.positions = Store(Store(Store(@,
                       i3, (Centered(r(1)) * 3) \div 10),
                       i3 + 1, 0 - Unit(r(2)) \div 2),
                       i3 + 2, (Centered(r(3)) * 3) \div 10),
       !.velocities = Store(Store(Store(@,
                       i3, (Centered(r(4)) * 2) \div 10),
                       i3 + 1, 0 - 2 * ParticleOne - (Unit(r(5)) * 3) \div 2),
                       i3 + 2, (Centered(r(6)) * 2) \div 10),
       !.colors = Store(Store(Store(@,
                       i3, ParticleOne),
                       i3 + 1, ParticleOne \div 2 + Unit(r(7)) \div 2),
                       i3 + 2, 0),
       !.sizes = Store(@, i, (3 * ParticleOne) \div 10 + (Unit(r(8)) * 4) \div 10),
       !.lifespans = Store(@, i, ParticleOne \div 2 + Unit(r(9)))]

RECURSIVE initializeLoop(_, _, _)
initializeLoop(P, i, tape) ==
  IF i < P.maxParticles
  THEN initializeLoop(initializeSlot(P, i, tape), i + 1, tape)
  ELSE P

initializeParticles(P, tape) == initializeLoop(P, 0, tape)

\* The constructor: the arrays are allocated, then filled.
FlameParticleSystem(n, tape) ==
  initializeParticles(
    [maxParticles |-> n,
     positions |-> Float32Array(n * 3),
     velocities |-> Float32Array(n * 3),
     colors |-> Float32Array(n * 3),
     sizes |-> Float32Array(n),
     lifespans |-> Float32Array(n),
     cloudPosition |-> Vec(0, 0, 0),
     visible |-> FALSE,
     respawns |-> 0], tape)

resetParticle_Appends(P, index, tape) ==
  [P EXCEPT
     !.lifespans = [k \in 0..Cardinality(DOMAIN @) |->
                      IF k \in DOMAIN @ THEN @[k]
                      ELSE ParticleOne \div 2 + Unit(Rand(tape, index, 9))],
     !.respawns = @ + 1]
resetParticle_ShortLife(P, index, tape) ==
  [P EXCEPT
     !.lifespans = Store(@, index, 1 + Unit(Rand(tape, index, 9)) \div 4),
     !.respawns = @ + 1]
resetParticle(P, index, tape) ==
  LET i3 == index * 3
      r(f) == Rand(tape, index, f)
  IN [P EXCEPT
       !.positions = Store(Store(Store(@,
                       i3, (Centered(r(2)) * 3) \div 10),
                       i3 + 1, 0),
                       i3 + 2, (Centered(r(3)) * 3) \div 10),
       !.velocities = Store(Store(Store(@,
                       i3, (Centered(r(4)) * 2) \div 10),
                       i3 + 1, 0 - 2 * ParticleOne - Unit(r(5))),
                       i3 + 2, (Centered(r(6)) * 2) \div 10),
       !.colors = Store(Store(Store(@,
                       i3, ParticleOne),
                       i3 + 1, ParticleOne \div 2 + Unit(r(7)) \div 2),
                       i3 + 2, 0),
       !.sizes = Store(@, index, (3 * ParticleOne) \div 10 + (Unit(r(8)) * 4) \div 10),
       !.lifespans = Store(@, index, ParticleOne \div 2 + Unit(r(9))),
       !.respawns = @ + 1]

updateSlot_NoRespawn(P, i, dt, tape) ==
  LET i3 == i * 3
      v == P.velocities
      P1 == [P EXCEPT
               !.positions = Store(Store(Store(@,
                               i3, @[i3] + ByDt(v[i3], dt)),
                               i3 + 1, @[i3 + 1] + ByDt(v[i3 + 1], dt)),
                               i3 + 2, @[i3 + 2] + ByDt(v[i3 + 2], dt)),
               !.velocities = Store(Store(@,
                               i3 + 1, @[i3 + 1] + DtTimes(dt, 3)),
                               i3, @[i3] + (Centered(Rand(tape, i, 1)) * 2) \div 10),
               !.colors = Store(@, i3 + 1, @[i3 + 1] - DtTimes(dt, 1)),
               !.sizes = Store(@, i, @[i] - DtTimes(dt, 1) \div 2),
               !.lifespans = Store(@, i, @[i] - DtTimes(dt, 1))]
  IN P1
\* The body of update's loop.
updateSlot(P, i, dt, tape) ==
  LET i3 == i * 3
      v == P.velocities
      P1 == [P EXCEPT
               !.positions = Store(Store(Store(@,
                               i3, @[i3] + ByDt(v[i3], dt)),
                               i3 + 1, @[i3 + 1] + ByDt(v[i3 + 1], dt)),
                               i3 + 2, @[i3 + 2] + ByDt(v[i3 + 2], dt)),
               !.velocities = Store(Store(@,
                               i3 + 1, @[i3 + 1] + DtTimes(dt, 3)),
                               i3, @[i3] + (Centered(Rand(tape, i, 1)) * 2) \div 10),
               !.colors = Store(@, i3 + 1, @[i3 + 1] - DtTimes(dt, 1)),
               !.sizes = Store(@, i, @[i] - DtTimes(dt, 1) \div 2),
               !.lifespans = Store(@, i, @[i] - DtTimes(dt, 1))]
  IN IF P1.lifespans[i] <= 0 THEN resetParticle(P1, i, tape) ELSE P1

RECURSIVE updateLoop(_, _, _, _)
updateLoop(P, i, dt, tape) ==
  IF i < P.maxParticles
  THEN updateLoop(updateSlot(P, i, dt, tape), i + 1, dt, tape)
  ELSE P

update_FollowsShipWhenStopped(P, isVisible, deltaTime, rocketPosition, tape) ==
  [(IF ~isVisible THEN P ELSE updateLoop(P, 0, deltaTime, tape))
     EXCEPT !.cloudPosition = rocketPosition]
update(P, isVisible, deltaTime, rocketPosition, tape) ==
  IF ~isVisible
  THEN P
  ELSE [updateLoop(P, 0, deltaTime, tape) EXCEPT !.cloudPosition = rocketPosition]

(***************************************************************************)
(* The state after SpaceScene's constructor and the model loader's         *)
(* callback have run: the ship is placed, the sequencer is constructed.    *)
(***************************************************************************)
ShipInitialPosition == Vec(0, (0 - 40) * FixedOne, 60 * FixedOne)

InitWorld(registered, followed) ==
  /\ camera = [followed |-> followed, position |-> CameraInitialPosition]
  /\ now = 0
  /\ frameTime = 0
  /\ animationState = [isAnimating |-> FALSE, stage |-> "idle", startTime |-> 0,
                       startPosition |-> Vec(0, 0, 0),
                       targetPosition |-> Vec(0, 0, 0)]
  /\ rafId = 0
  /\ pending = registered
  /\ frameQueue = <<>>
  /\ shipPosition = ShipInitialPosition
  /\ controlsEnabled = TRUE
  /\ warpVisible = FALSE
  /\ warpPosition = Vec(0, 0, 0)
  /\ warpUniforms = [time |-> 0, active |-> 0]
  /\ warpScale = FixedOne
  /\ bloomStrength = FixedOne
  /\ overlays = 0
  /\ timers = {}
  /\ navigated = FALSE
  /\ onCompleteCalls = 0
  /\ launches = 0
  /\ completions = 0
  /\ stageLog = <<>>
  /\ frameLog = [stage |-> "idle", progress |-> 0]
  /\ lastCall = "none"
  /\ calls = <<>>
  /\ launchedAt = 0
  /\ shipRotation = [x |-> 0, y |-> 0, z |-> 0]

\* The rig of the specifications that leave the camera's position out.
InitRig(registered) == InitWorld(registered, FALSE)

\* The sequencer on its own: no other frame callback is registered.
InitSequencer == InitRig(<<>>)

\* The five per-slot arrays.
Slots ==
  [positions |-> positions, velocities |-> velocities, colors |-> colors,
   sizes |-> sizes, lifespans |-> lifespans]

\* lastArgs before the first update() call.
NoArgs == [deltaTime |-> 0, rocketPosition |-> Vec(0, 0, 0), tape |-> "zeros"]

\* new FlameParticleSystem(scene, n), with the draws of one tape.
InitPool(n, tape) ==
  /\ updates = 0
  /\ capacity = n
  /\ lastArgs = NoArgs
  /\ atStop = <<>>
  /\ LET P == FlameParticleSystem(n, tape)
     IN /\ visible = P.visible
        /\ respawns = P.respawns
        /\ maxParticles = P.maxParticles
        /\ positions = P.positions
        /\ velocities = P.velocities
        /\ colors = P.colors
        /\ sizes = P.sizes
        /\ lifespans = P.lifespans
        /\ cloudPosition = P.cloudPosition

Init ==
  /\ InitSequencer
  /\ InitPool(MaxCapacity, "mixed")

(***************************************************************************)
(* Host events.  Clicks, timers and clock readings come between frames;    *)
(* the callbacks of one frame run back to back.                            *)
(***************************************************************************)
BetweenFrames == ~navigated /\ frameQueue = <<>>

\* Time passes.  A timeout that is due runs before the clock moves on.
Tick(d) ==
  /\ BetweenFrames
  /\ now + d <= MaxTime
  /\ \A t \in timers : now < t
  /\ now' = now + d
  /\ lastCall' = "tick"
  /\ calls' = <<>>
  /\ UNCHANGED <<launchedAt, shipRotation, camera>>
  /\ UNCHANGED <<frameTime, animationState, rafId, pending, frameQueue,
                 shipPosition, controlsEnabled, warpVisible, warpPosition,
                 warpUniforms, warpScale, bloomStrength, visible, overlays,
                 timers, navigated, onCompleteCalls, launches, completions,
                 stageLog, frameLog, poolVars>>

\* SpaceScene.onSpaceshipClick, for a click whose ray hits the ship.
onSpaceshipClick(rx, rz) ==
  /\ BetweenFrames
  /\ Becomes(startAnimation([World EXCEPT !.calls = <<>>], rx, rz))
  /\ lastCall' = "startAnimation"
  /\ UNCHANGED <<now, frameTime, navigated, poolVars>>

\* The host begins a frame: the callbacks registered so far are the frame's.
HostFrame(lag) ==
  /\ BetweenFrames
  /\ pending # <<>>
  /\ now - lag >= frameTime
  /\ frameTime' = now - lag
  /\ frameQueue' = pending
  /\ pending' = <<>>
  /\ lastCall' = "frame"
  /\ calls' = <<>>
  /\ UNCHANGED <<launchedAt, shipRotation, camera>>
  /\ UNCHANGED <<now, animationState, rafId, shipPosition, controlsEnabled,
                 warpVisible, warpPosition, warpUniforms, warpScale,
                 bloomStrength, visible, overlays, timers, navigated,
                 onCompleteCalls, launches, completions, stageLog, frameLog,
                 poolVars>>

\* The host calls the frame's next callback with the frame's timestamp.
AnimateCallback ==
  /\ ~navigated
  /\ frameQueue # <<>>
  /\ Head(frameQueue).fn = "animate"
  /\ Becomes(animate([World EXCEPT !.frameQueue = Tail(@), !.calls = <<>>],
                     frameTime))
  /\ lastCall' = "animate"
  /\ UNCHANGED <<now, frameTime, navigated, poolVars>>

FadeCallback ==
  /\ ~navigated
  /\ frameQueue # <<>>
  /\ Head(frameQueue).fn = "fade"
  /\ Becomes(fadeCallback([World EXCEPT !.frameQueue = Tail(@),
                                        !.calls = <<>>]))
  /\ lastCall' = "fade"
  /\ UNCHANGED <<now, frameTime, navigated, poolVars>>

\* The navigation timeout runs: the page, and with it the program, is gone.
Navigate ==
  /\ BetweenFrames
  /\ \E t \in timers : now >= t
  /\ navigated' = TRUE
  /\ lastCall' = "navigate"
  /\ calls' = <<>>
  /\ UNCHANGED <<launchedAt, shipRotation, camera>>
  /\ UNCHANGED <<now, frameTime, animationState, rafId, pending, frameQueue,
                 shipPosition, controlsEnabled, warpVisible, warpPosition,
                 warpUniforms, warpScale, bloomStrength, visible, overlays,
                 timers, onCompleteCalls, launches, completions, stageLog,
                 frameLog, poolVars>>

Next ==
  \/ \E d \in Delays : Tick(d)
  \/ \E rx \in RandomDraws, rz \in RandomDraws : onSpaceshipClick(rx, rz)
  \/ \E lag \in FrameLags : HostFrame(lag)
  \/ AnimateCallback
  \/ FadeCallback
  \/ Navigate

Spec == Init /\ [][Next]_vars

(***************************************************************************)
(* The particle pool on its own, driven by any caller: a pool of any       *)
(* capacity up to MaxCapacity, and start(), stop() and update() in any     *)
(* order, update() with any of the frame deltas and emitter positions.     *)
(***************************************************************************)
DeltaTimes == {0, 1, FRAME_RATE}
Emitters == {Vec(0, 0, 0), ShipInitialPosition}

InitParticles ==
  /\ InitSequencer
  /\ \E n \in 0..MaxCapacity, tape \in Tapes : InitPool(n, tape)

\* What a call on the pool leaves alone.
RigUntouched ==
  UNCHANGED <<now, frameTime, animationState, rafId, pending, frameQueue,
              shipPosition, controlsEnabled, warpVisible, warpPosition,
              warpUniforms, warpScale, bloomStrength, overlays, timers,
              navigated, onCompleteCalls, launches, completions, stageLog,
              frameLog, calls, launchedAt, shipRotation, camera>>

Start ==
  /\ LET P == start(Pool)
     IN PoolBecomes(P) /\ visible' = P.visible
  /\ lastCall' = "start"
  /\ RigUntouched
  /\ UNCHANGED <<capacity, updates, lastArgs, atStop>>

Stop ==
  /\ LET P == stop(Pool)
     IN PoolBecomes(P) /\ visible' = P.visible
  /\ atStop' = <<Slots>>
  /\ lastCall' = "stop"
  /\ RigUntouched
  /\ UNCHANGED <<capacity, updates, lastArgs>>

Update(deltaTime, rocketPosition, tape) ==
  /\ updates < MaxUpdates
  /\ LET P == update(Pool, visible, deltaTime, rocketPosition, tape)
     IN PoolBecomes(P) /\ visible' = P.visible
  /\ updates' = updates + 1
  /\ lastArgs' = [deltaTime |-> deltaTime, rocketPosition |-> rocketPosition,
                  tape |-> tape]
  /\ atStop' = <<>>
  /\ lastCall' = "update"
  /\ RigUntouched
  /\ UNCHANGED capacity

NextParticles ==
  \/ Start
  \/ Stop
  \/ \E dt \in DeltaTimes, e \in Emitters, tape \in Tapes : Update(dt, e, tape)

SpecParticles == InitParticles /\ [][NextParticles]_vars

(***************************************************************************)
(* The whole page: the scene's render loop, registered by SpaceScene's     *)
(* constructor before anything else, runs in every host frame next to the  *)
(* sequencer's callback; it is the only caller of the particles' update(). *)
(* Callbacks run in registration order.  The page is followed for          *)
(* MaxUpdates frames.                                                      *)
(***************************************************************************)
\* SpaceScene.animate, but for its update() call, which SceneCallback makes
\* on the pool.
SpaceScene_animate(w) ==
  LET w1 == requestAnimationFrame(w, "scene")
      w2 == [w1 EXCEPT !.calls = Append(@, "update")]
      w3 == IF w2.warpVisible
            THEN [w2 EXCEPT !.warpUniforms.time = @ + WarpTimeOne \div FRAME_RATE]
            ELSE w2
  IN [w3 EXCEPT !.calls = Append(@, "render")]

\* The Math.random() results the page is followed under.
SceneTapes == {"mixed"}

InitScene ==
  /\ InitRig(<<[id |-> 1, fn |-> "scene"]>>)
  /\ InitPool(MaxCapacity, "mixed")

SceneCallback(tape) ==
  /\ ~navigated
  /\ frameQueue # <<>>
  /\ Head(frameQueue).fn = "scene"
  /\ updates < MaxUpdates
  /\ Becomes(SpaceScene_animate([World EXCEPT !.frameQueue = Tail(@),
                                              !.calls = <<>>]))
  /\ PoolBecomes(update(Pool, visible, 1, shipPosition, tape))
  /\ updates' = updates + 1
  /\ lastArgs' = [deltaTime |-> 1, rocketPosition |-> shipPosition, tape |-> tape]
  /\ atStop' = <<>>
  /\ lastCall' = "scene"
  /\ UNCHANGED <<now, frameTime, navigated, capacity>>

NextScene ==
  \/ \E d \in Delays : Tick(d)
  \/ \E rx \in RandomDraws, rz \in RandomDraws : onSpaceshipClick(rx, rz)
  \/ \E lag \in FrameLags : HostFrame(lag)
  \/ \E tape \in SceneTapes : SceneCallback(tape)
  \/ AnimateCallback
  \/ FadeCallback
  \/ Navigate

SpecScene == InitScene /\ [][NextScene]_vars

(***************************************************************************)
(* Properties of the launch sequencer (checked under Spec)                 *)
(***************************************************************************)
\* The sequencer's own frame callbacks that are registered and not yet called.
AnimateCallbacksScheduled ==
  Cardinality({i \in 1..Len(pending) : pending[i].fn = "animate"})
    + Cardinality({i \in 1..Len(frameQueue) : frameQueue[i].fn = "animate"})

LaunchFinished == completions >= 1 /\ ~animationState.isAnimating

\* C1: for a single startAnimation() call the stage goes flame-buildup ->
\* launching -> completed, each transition once: when the one launch has
\* completed, the stages assigned are exactly these three, in this order.
C1_StageSequence ==
  (launches = 1 /\ completions = 1)
    => stageLog = <<"flame-buildup", "launching", "completed">>

\* C2: the completion callback is invoked exactly once per launch: in every
\* state it has been invoked as many times as launches have completed.
C2_CallbackOncePerLaunch == onCompleteCalls = completions

\* C3: startAnimation() called while a launch is in progress is a no-op: the
\* stage, the stage start time, the captured start and target positions, the
\* particle, warp and controls flags and the scheduled callbacks are unchanged.
C3_StartWhileAnimatingIsNoOp ==
  [][(lastCall' = "startAnimation" /\ animationState.isAnimating)
       => UNCHANGED <<animationState, visible, warpVisible, controlsEnabled,
                      rafId, pending, frameQueue, shipPosition, warpPosition,
                      launches, stageLog>>]_vars

C3_Witness ==
  /\ lastCall = "startAnimation"
  /\ animationState.isAnimating
  /\ animationState.stage = "launching"
  /\ now > animationState.startTime

\* C4: in every reachable state at most one sequencer frame callback is
\* pending, whatever the interleaving of clicks and host frames.
C4_AtMostOneCallbackPending == AnimateCallbacksScheduled <= 1

\* C5: once a launching frame has observed elapsed >= 4000 ms the stage is
\* completed and stays so: whenever the latest launch has completed, the
\* stage is 'completed'.
C5_CompletedIsTerminal ==
  (completions >= 1 /\ completions = launches)
    => animationState.stage = "completed"

\* C6: the launch is single-shot: once a launch has completed, the stage never
\* re-enters flame-buildup and no further launch is accepted.
C6_SingleShot ==
  completions >= 1 => (animationState.stage # "flame-buildup" /\ launches = 1)

\* C7: completing the launch stops the particle system, hides the warp tunnel
\* and re-enables the controls: in every state after a completion in which no
\* launch is in progress, all three hold.
C7_CleanupRestoresRig ==
  LaunchFinished => (controlsEnabled /\ ~warpVisible /\ ~visible)

C7_Witness ==
  /\ LaunchFinished
  /\ lastCall = "animate"
  /\ frameLog = [stage |-> "launching", progress |-> FixedOne]
  /\ controlsEnabled /\ ~warpVisible /\ ~visible

\* C8: cleanup halts the frame loop: after a launch has completed and while
\* no launch is in progress, no sequencer frame callback is left scheduled.
C8_CleanupHaltsFrameLoop == LaunchFinished => AnimateCallbacksScheduled = 0

\* C9: in the launching frame where progress = 1 the ship's position equals
\* the captured target position on all three axes, and no step taken while a
\* launch is in progress alters the captured start and target positions.
C9_EndPositionIsTarget ==
  /\ []((lastCall = "animate" /\ frameLog = [stage |-> "launching", progress |-> FixedOne])
          => shipPosition = animationState.targetPosition)
  /\ [][animationState.isAnimating
          => /\ animationState'.startPosition = animationState.startPosition
             /\ animationState'.targetPosition = animationState.targetPosition]_vars

C9_Witness ==
  /\ lastCall = "animate"
  /\ frameLog = [stage |-> "launching", progress |-> FixedOne]
  /\ shipPosition = animationState.targetPosition
  /\ shipPosition.x # animationState.startPosition.x
  /\ shipPosition.y = animationState.startPosition.y + LAUNCH_HEIGHT * FixedOne

\* C15: in every state where a launch is in progress, from the return of the
\* accepted startAnimation() until completion, the controls are disabled, the
\* warp tunnel is visible and the particle system is started.
C15_RigEngagedWhileLaunching ==
  animationState.isAnimating => (~controlsEnabled /\ warpVisible /\ visible)

\* A launching frame short of completion, in a launch started after an
\* earlier launch had completed.
C15_Witness ==
  /\ animationState.isAnimating
  /\ lastCall = "animate"
  /\ frameLog.stage = "launching"
  /\ frameLog.progress > 0
  /\ frameLog.progress < FixedOne
  /\ completions >= 1
  /\ ~controlsEnabled /\ warpVisible /\ visible

\* The captured target position minus the captured start position.
TargetOffset ==
  Vec(animationState.targetPosition.x - animationState.startPosition.x,
      animationState.targetPosition.y - animationState.startPosition.y,
      animationState.targetPosition.z - animationState.startPosition.z)

Within(x, lo, hi) == lo * FixedOne <= x /\ x <= hi * FixedOne

\* An accepted startAnimation() has just returned.
LaunchAccepted == lastCall = "startAnimation" /\ calls # <<>>

\* C19 as claimed: the target captured by startAnimation() is the ship's
\* position plus the launch height on the vertical axis plus an offset in
\* [-5, +5] on each horizontal axis: target.y - start.y is the launch height,
\* target.x - start.x and target.z - start.z lie in [-5, +5].
C19_TargetOffsetWithinFive ==
  launches >= 1
    => /\ TargetOffset.y = LAUNCH_HEIGHT * FixedOne
       /\ Within(TargetOffset.x, 0 - 5, 5)
       /\ Within(TargetOffset.z, 0 - 5, 5)

\* C19 amended: the captured start is the ship's position at the call;
\* target.y - start.y is the launch height, target.x - start.x lies in
\* [-5, +5], and target.z - start.z lies in [-105, -95]: the launch depth of
\* 100 units away from the viewer plus an offset in [-5, +5].
C19_TargetOffset ==
  /\ LaunchAccepted => animationState.startPosition = shipPosition
  /\ launches >= 1
       => /\ TargetOffset.y = LAUNCH_HEIGHT * FixedOne
          /\ Within(TargetOffset.x, 0 - 5, 5)
          /\ Within(TargetOffset.z, 0 - LAUNCH_DEPTH - 5, 5 - LAUNCH_DEPTH)

\* A launch accepted with Math.random() = 0.8 for x and 0 for z.
C19_Witness ==
  /\ LaunchAccepted
  /\ launches = 1
  /\ animationState.startPosition = ShipInitialPosition
  /\ TargetOffset = Vec(3 * FixedOne, LAUNCH_HEIGHT * FixedOne,
                        (0 - LAUNCH_DEPTH - 5) * FixedOne)

\* The sequencer's callback has just handled a Launching frame.
LaunchingFrameHandled ==
  /\ lastCall = "animate"
  /\ calls # <<>>
  /\ frameLog.stage = "launching"

\* The sequencer's callback has just handled a FlameBuildup frame.
BuildupFrameHandled ==
  /\ lastCall = "animate"
  /\ calls # <<>>
  /\ frameLog.stage = "flame-buildup"

\* C22 as claimed: the stage-transition condition is evaluated before the
\* frame's visual updates: the frame in which FlameBuildup's elapsed time
\* reaches 1500 ms applies no FlameBuildup motion, and the frame in which
\* Launching's elapsed time reaches 4000 ms applies no Launching motion after
\* the transition.
C22_TransitionBeforeMotion ==
  /\ (BuildupFrameHandled /\ frameLog.progress = FixedOne)
       => calls = <<"render">>
  /\ (LaunchingFrameHandled /\ frameLog.progress = FixedOne)
       => ~animationState.isAnimating

\* C22 amended: each call of the frame callback applies its stage's visual
\* updates for the call's progress and then evaluates the transition.  The
\* call in which FlameBuildup's elapsed time reaches 1500 ms writes the
\* FlameBuildup rotation for progress 1, zero on the three axes, and then
\* moves to Launching; no FlameBuildup call applies a Launching update.  The
\* call in which Launching's elapsed time reaches 4000 ms applies the
\* Launching updates for progress 1 and then completes.
C22_MotionThenTransition ==
  /\ []((BuildupFrameHandled /\ frameLog.progress = FixedOne)
          => /\ calls = <<"transform", "render">>
             /\ shipRotation.x = 0 /\ shipRotation.y = 0 /\ shipRotation.z = 0
             /\ animationState.stage = "launching")
  /\ [][BuildupFrameHandled'
          => UNCHANGED <<shipPosition, warpUniforms, warpScale, warpPosition,
                         bloomStrength>>]_vars
  /\ []((LaunchingFrameHandled /\ frameLog.progress = FixedOne)
          => /\ calls = <<"transform", "render">>
             /\ shipPosition = animationState.targetPosition
             /\ warpUniforms.active = FixedOne
             /\ bloomStrength = 4 * FixedOne
             /\ ~animationState.isAnimating)

\* The call that ends FlameBuildup, 1500 ms after the launch began: the ship
\* is level and has not left its start position.
C22_Witness ==
  /\ BuildupFrameHandled
  /\ frameLog.progress = FixedOne
  /\ frameTime - launchedAt = FLAME_BUILDUP_DURATION
  /\ animationState.stage = "launching"
  /\ calls = <<"transform", "render">>
  /\ shipRotation = [x |-> 0, y |-> 0, z |-> 0]
  /\ shipPosition = animationState.startPosition

\* C23: the stage start time is re-stamped from the clock on the FlameBuildup
\* -> Launching transition, and the launch completes only in a Launching
\* frame whose timestamp is at least 4000 ms after the re-stamped time,
\* however long before that startAnimation() was called.
C23_LaunchingMeasuredFromTransition ==
  /\ [][(animationState.stage = "flame-buildup"
           /\ animationState'.stage = "launching")
          => animationState'.startTime = now]_vars
  /\ [][completions' > completions
          => /\ animationState.stage = "launching"
             /\ animationState'.startTime = animationState.startTime
             /\ frameTime - animationState.startTime >= LAUNCH_DURATION]_vars

\* A launch started at 0 whose FlameBuildup ran for 2000 ms has completed in
\* the frame 4000 ms after the transition, 6000 ms after the start.
C23_Witness ==
  /\ lastCall = "animate"
  /\ launches = 1
  /\ completions = 1
  /\ frameLog = [stage |-> "launching", progress |-> FixedOne]
  /\ launchedAt = 0
  /\ animationState.startTime = FLAME_BUILDUP_DURATION + FrameQuantum
  /\ frameTime = animationState.startTime + LAUNCH_DURATION

\* C24: in every FlameBuildup and Launching frame progress lies in [0, 1],
\* also for a frame timestamp earlier than the stage start time stamped from
\* the clock; hence warp 'active' stays in [0, 1], the warp scale in [1, 1.5]
\* and the bloom strength in [1, 4].
C24_ProgressClamped ==
  /\ Within(frameLog.progress, 0, 1)
  /\ Within(warpUniforms.active, 0, 1)
  /\ Within(2 * warpScale, 2, 3)
  /\ Within(bloomStrength, 1, 4)

\* C25 as claimed: each Launching frame increases the warp tunnel's time
\* uniform by elapsed * 0.001 (new time = old time + elapsed * 0.001).
C25_WarpTimeAccumulates ==
  [][LaunchingFrameHandled'
       => warpUniforms'.time
            = warpUniforms.time + Millis(frameTime - animationState.startTime)]_vars

\* C25 amended: each Launching frame sets the warp tunnel's time uniform to
\* elapsed * 0.001, whatever it was before, 'active' to min(progress * 2, 1)
\* and the scale to 1 + progress * 0.5.
C25_WarpFollowsElapsed ==
  LaunchingFrameHandled
    => /\ warpUniforms.time = Millis(frameTime - animationState.startTime)
       /\ warpUniforms.active = Min(2 * frameLog.progress, FixedOne)
       /\ 2 * warpScale = 2 * FixedOne + frameLog.progress

\* A Launching frame one second into the stage of a launch in progress.
C25_Witness ==
  /\ LaunchingFrameHandled
  /\ animationState.isAnimating
  /\ frameTime - animationState.startTime = 1000
  /\ warpUniforms = [time |-> Millis(1000), active |-> FixedOne \div 2]
  /\ 8 * warpScale = 9 * FixedOne

\* sin(time * speed) * amplitude * sin(progress * pi / 2) for the frame that
\* was just handled, time being the clock reading in seconds.
AdvancedAngle(params) ==
  Times((Sin((now * params.speed) \div 10) * params.amplitude) \div 100,
        Sin((frameLog.progress * HalfTurn) \div (2 * FixedOne)))

\* C26: every Launching frame writes the ship's three rotation angles, the
\* x, y and z angles that FlameBuildup writes with the pitch, yaw and roll
\* parameters, each to sin(time * speed) * amplitude * sin(progress * pi / 2)
\* for its axis' parameters.  Stated for the frames with progress in (0, 1].
C26_LaunchingWritesRotation ==
  (LaunchingFrameHandled /\ frameLog.progress > 0)
    => /\ shipRotation.x = AdvancedAngle(rotationParams.pitch)
       /\ shipRotation.y = AdvancedAngle(rotationParams.yaw)
       /\ shipRotation.z = AdvancedAngle(rotationParams.roll)

(***************************************************************************)
(* The sequencer with the camera followed.  The host is a browser that     *)
(* keeps its frames apart: every frame has a later timestamp than the one  *)
(* before, and its callbacks see the clock reading as their timestamp.     *)
(***************************************************************************)
InitCamera ==
  /\ InitWorld(<<>>, TRUE)
  /\ InitPool(MaxCapacity, "mixed")

SteadyFrame ==
  /\ frameTime < now
  /\ HostFrame(0)

\* One Math.random() result serves every launch: the camera's path is the
\* same for every target but for the target's place.
CameraDraws == {0}

NextCamera ==
  \/ \E d \in Delays : Tick(d)
  \/ \E rx \in CameraDraws, rz \in CameraDraws : onSpaceshipClick(rx, rz)
  \/ SteadyFrame
  \/ AnimateCallback
  \/ FadeCallback
  \/ Navigate

SpecCamera == InitCamera /\ [][NextCamera]_vars

(***************************************************************************)
(* Properties of the camera, under SpecCamera                              *)
(***************************************************************************)
\* x is the tenth part of d, to the grain of the fixed point.
IsTenthOf(x, d) == d - CAMERA_LERP_STEPS * x \in 0..(CAMERA_LERP_STEPS - 1)

\* C27: each Launching frame moves the camera one tenth of the way from
\* where it is to the point (ship.x, ship.y + 50 eased, ship.z + 100 - 75
\* eased), the ship being where the frame has just put it, whatever time
\* has passed since the frame before; the frames of FlameBuildup and the
\* passing of time leave the camera where it is.
C27_CameraMovesTenthPerFrame ==
  /\ [][LaunchingFrameHandled'
          => LET eased == customEase(frameLog'.progress)
                 from == camera.position
                 to == camera'.position
             IN /\ IsTenthOf(to.x - from.x, shipPosition'.x - from.x)
                /\ IsTenthOf(to.y - from.y,
                             shipPosition'.y + 50 * eased - from.y)
                /\ IsTenthOf(to.z - from.z,
                             shipPosition'.z + 100 * FixedOne - 75 * eased
                               - from.z)]_vars
  /\ [][~LaunchingFrameHandled' => camera' = camera]_vars

\* Where the camera is after a launch whose Launching stage had one frame.
CameraAfterOneFrame ==
  lerp(CameraInitialPosition,
       CameraTarget(animationState.targetPosition, FixedOne),
       CAMERA_LERP_STEPS)

\* A first launch has ended 5500 ms after its click, as early as it can, and
\* its camera is not where a launch that ends at the same time with a single
\* Launching frame leaves it.
C27_Witness ==
  /\ LaunchingFrameHandled
  /\ frameLog.progress = FixedOne
  /\ launches = 1
  /\ completions = 1
  /\ frameTime - launchedAt = FLAME_BUILDUP_DURATION + LAUNCH_DURATION
  /\ camera.followed
  /\ camera.position # CameraAfterOneFrame

(***************************************************************************)
(* Properties of the whole page (checked under SpecScene)                  *)
(***************************************************************************)
\* C16: every per-frame advance of the sequencer during an active launch
\* invokes the particles' update once, after the ship transform has been
\* updated and before that frame's draw call: the rig calls of an advance are
\* the transform, then one update, then the draw.
C16_AdvanceUpdatesParticlesBeforeDraw ==
  (lastCall \in {"animate", "startAnimation"} /\ calls # <<>>)
    => calls = <<"transform", "update", "render">>

\* C20: while a launch is in progress the warp shader's uniforms (time,
\* active) are written only by the launch sequencer: a step of any other
\* handler taken while isAnimating holds leaves them as they were.
C20_OnlySequencerWritesWarpUniforms ==
  [][(animationState.isAnimating /\ warpUniforms' # warpUniforms)
       => lastCall' \in {"animate", "startAnimation"}]_vars

\* C21: in every host frame of an active launch, with the scene loop's and
\* the sequencer's callbacks run in registration order, the particle cloud is
\* at the ship's position at the frame's final draw call, which is the one
\* the sequencer's callback makes.  Stated for the frames whose timestamp is
\* not behind the stage's start time.
C21_CloudAtShipWhenDrawn ==
  (lastCall = "animate" /\ animationState.isAnimating /\ calls # <<>>
     /\ frameLog.progress >= 0)
    => cloudPosition = shipPosition

(***************************************************************************)
(* Properties of the particle pool (checked under SpecParticles)           *)
(***************************************************************************)
Length(a) == Cardinality(DOMAIN a)

\* C10: the pool size is fixed at construction: after any sequence of start(),
\* stop() and update() calls the position, velocity and colour arrays hold
\* three entries, and the size and lifespan arrays one entry, per slot of the
\* capacity given to the constructor.
C10_PoolSizeFixed ==
  /\ Length(positions) = 3 * capacity
  /\ Length(velocities) = 3 * capacity
  /\ Length(colors) = 3 * capacity
  /\ Length(sizes) = capacity
  /\ Length(lifespans) = capacity

C10_Witness ==
  /\ lastCall = "update"
  /\ visible
  /\ capacity = MaxCapacity
  /\ updates >= 2
  /\ respawns >= capacity
  /\ Length(lifespans) = capacity

\* C11: stop() and start() change only the visible flag: neither call changes
\* any slot's position, velocity, colour, size or remaining life, and after
\* stop() followed by start() every slot is as it was before the stop().
C11_StopStartKeepsSlots ==
  /\ []((lastCall = "start" /\ atStop # <<>>) => Slots = atStop[1])
  /\ [][lastCall' \in {"start", "stop"}
          => (Slots' = Slots /\ cloudPosition' = cloudPosition)]_vars

\* A slot in mid-countdown, never respawned, after stop() and then start().
C11_Witness ==
  /\ lastCall = "start"
  /\ visible
  /\ atStop # <<>>
  /\ capacity >= 1
  /\ updates >= 1
  /\ respawns = 0
  /\ lifespans[0] > 0
  /\ lifespans[0] < ParticleOne \div 2
  /\ lifespans[0] = atStop[1].lifespans[0]

\* C12: when an update() call made on a started system (with dt >= 0) has
\* returned, no slot is left with remaining life <= 0: every slot's life
\* lies in (0, 1.5].
C12_NoDeadSlotAfterUpdate ==
  (lastCall = "update" /\ visible)
    => \A i \in DOMAIN lifespans :
         lifespans[i] > 0 /\ 2 * lifespans[i] <= 3 * ParticleOne

\* A one-second update() has respawned every slot of a full pool.
C12_Witness ==
  /\ lastCall = "update"
  /\ visible
  /\ lastArgs.deltaTime = FRAME_RATE
  /\ capacity = MaxCapacity
  /\ respawns >= capacity
  /\ \A i \in DOMAIN lifespans : lifespans[i] > 0

\* C13: in every update(dt) call with dt > 0 on a started system, each slot's
\* life decreases by dt as long as the result is positive; the call that
\* brings it to <= 0 resamples it into [0.5, 1.5].
C13_LifeCountsDownThenResampled ==
  [][(lastCall' = "update" /\ visible /\ lastArgs'.deltaTime > 0)
       => \A i \in DOMAIN lifespans :
            LET aged == lifespans[i] - DtTimes(lastArgs'.deltaTime, 1)
            IN IF aged > 0
               THEN lifespans'[i] = aged
               ELSE /\ 2 * lifespans'[i] >= ParticleOne
                    /\ 2 * lifespans'[i] <= 3 * ParticleOne]_vars

\* One update() of one second: slot 0 ran out and was resampled, slot 1 has
\* three tenths of a second left.
C13_Witness ==
  /\ lastCall = "update"
  /\ visible
  /\ lastArgs.deltaTime = FRAME_RATE
  /\ capacity = 2
  /\ updates = 1
  /\ respawns = 1
  /\ 2 * lifespans[0] >= ParticleOne
  /\ 10 * lifespans[1] = 3 * ParticleOne

\* C14: update(dt, emitter) on a system that is not started, as it is right
\* after construction, is a no-op: no slot's position, velocity, colour, size
\* or life changes, no slot is respawned and the point cloud is not moved.
C14_UpdateWhileStoppedIsNoOp ==
  [][(lastCall' = "update" /\ ~visible)
       => /\ Slots' = Slots
          /\ cloudPosition' = cloudPosition
          /\ respawns' = respawns]_vars

\* The first call on a pool that was never updated: one second, with the
\* emitter at the ship's position, and the cloud is still at the origin.
C14_Witness ==
  /\ lastCall = "update"
  /\ ~visible
  /\ updates = 1
  /\ capacity = MaxCapacity
  /\ lastArgs.deltaTime = FRAME_RATE
  /\ lastArgs.rocketPosition = ShipInitialPosition
  /\ cloudPosition = Vec(0, 0, 0)
  /\ respawns = 0
  /\ Slots = [positions |-> FlameParticleSystem(capacity, "mixed").positions,
              velocities |-> FlameParticleSystem(capacity, "mixed").velocities,
              colors |-> FlameParticleSystem(capacity, "mixed").colors,
              sizes |-> FlameParticleSystem(capacity, "mixed").sizes,
              lifespans |-> FlameParticleSystem(capacity, "mixed").lifespans]

\* C17: update(0, emitter) on a started system changes no particle state:
\* every slot's position, velocity, colour, size and life is the same before
\* and after the call.
C17_ZeroDeltaChangesNothing ==
  [][(lastCall' = "update" /\ visible /\ lastArgs'.deltaTime = 0)
       => Slots' = Slots]_vars

\* Slot i is as the constructor fills it when every Math.random() result is
\* that of the tape, but for its vertical position, which is 0.
AsInitializedAtOrigin(i, tape) ==
  LET F == FlameParticleSystem(capacity, tape)
      i3 == i * 3
  IN /\ positions[i3] = F.positions[i3]
     /\ positions[i3 + 1] = 0
     /\ positions[i3 + 2] = F.positions[i3 + 2]
     /\ \A k \in {i3, i3 + 1, i3 + 2} :
          velocities[k] = F.velocities[k] /\ colors[k] = F.colors[k]
     /\ sizes[i] = F.sizes[i]
     /\ lifespans[i] = F.lifespans[i]

\* The tapes on which every Math.random() result is the same.
ConstantTapes == {"zeros", "halves"}

\* C18: a respawned slot is drawn as an initialized slot is, but for its
\* vertical position 0: a slot that update() respawns with given
\* Math.random() results has the horizontal position, the velocity (vertical
\* component from -2.0 to -3.5), the colour, the size and the life that
\* initialization gives a slot for the same results.
C18_RespawnAsInitialized ==
  [][\A tape \in ConstantTapes :
       (lastCall' = "update" /\ visible /\ lastArgs'.tape = tape)
         => \A i \in DOMAIN lifespans :
              lifespans[i] - DtTimes(lastArgs'.deltaTime, 1) <= 0
                => AsInitializedAtOrigin(i, tape)']_vars

\* C28: for dt > 0 and every slot the call does not respawn, a started
\* update(dt) changes the slot's vertical velocity by 3.0 * dt in the sense it
\* was given at spawn (negative), so that its magnitude after the call is
\* larger than before it.
C28_GravityGrowsVerticalSpeed ==
  [][(lastCall' = "update" /\ visible /\ lastArgs'.deltaTime > 0)
       => \A i \in DOMAIN lifespans :
            lifespans[i] - DtTimes(lastArgs'.deltaTime, 1) > 0
              => LET vy == velocities[3 * i + 1]
                     vyAfter == velocities'[3 * i + 1]
                 IN /\ vy < 0
                    /\ vyAfter = vy - DtTimes(lastArgs'.deltaTime, 3)
                    /\ 0 - vyAfter > 0 - vy]_vars
====
